---- MODULE Spec2Model ----
(***************************************************************************)
(* DiscussionTopicMenuView                                                 *)
(* (common/static/common/js/discussion/views/discussion_topic_menu_view.js)*)
(*                                                                         *)
(* Strings that the view builds or takes apart (names, labels, the full    *)
(* topic name) are sequences of tokens: one token per character of a name, *)
(* one token per HTML character reference, one token for the ' / '         *)
(* separator.  Topic ids are opaque strings.  Markup is a sequence of      *)
(* fragments, so that string concatenation (join('')) is \o.  A jQuery     *)
(* object is the sequence of its elements in document order; an element is *)
(* its path of child indices below the view's <select class="post-topic">. *)
(***************************************************************************)
EXTENDS Integers, Sequences, FiniteSets, TLC

VARIABLES
    category_map,    \* this.course_settings.get('category_map')
    currentTopicId,  \* this.currentTopicId
    topicText,       \* this.topicText
    el,              \* children of the rendered select inside this.$el
    selected,        \* the options of the select the browser holds as selected
    triggered,       \* 'thread:topic_change' notifications delivered by the last call
    call             \* the last call made on the view, with its argument and result

vars == <<category_map, currentTopicId, topicText, el, selected, triggered, call>>

-----------------------------------------------------------------------------
(* Bounds *)

\* Nesting depth of the category maps the view is constructed with.
MaxDepth == 2

-----------------------------------------------------------------------------
(* JavaScript values *)

Undefined == "undefined"

\* A string-valued slot that may be undefined (this.topicText, a return value).
UndefinedText == [defined |-> FALSE, str |-> <<>>]
Text(s) == [defined |-> TRUE, str |-> s]

\* Truthiness of an id value: undefined and '' are falsy.
Truthy(v) == v \notin {Undefined, ""}

\* String(v) as produced by '' + v and by the <%- %> interpolation of a template.
ToAttr(v) == IF v = Undefined THEN "" ELSE v

-----------------------------------------------------------------------------
(* HTML text: escaping and parsing of character data *)

EscapeChar(c) ==
    CASE c = "&" -> "&amp;"
      [] c = "<" -> "&lt;"
      [] c = ">" -> "&gt;"
      [] OTHER -> c

UnescapeChar(c) ==
    CASE c = "&amp;" -> "&"
      [] c = "&lt;" -> "<"
      [] c = "&gt;" -> ">"
      [] OTHER -> c

Escape(s) == [i \in 1..Len(s) |-> EscapeChar(s[i])]
Unescape(s) == [i \in 1..Len(s) |-> UnescapeChar(s[i])]

-----------------------------------------------------------------------------
(* Inputs: names, topic ids, category maps *)

NameA == <<"A">>
NameB == <<"B">>
NameQA == <<"Q", "&", "A">>

Entry(id, coh) == [id |-> id, is_cohorted |-> coh]
NoMapping == <<>>

CategoryMap(children, entries, subcategories) ==
    [children |-> children, entries |-> entries, subcategories |-> subcategories]

\* Maps without subcategories.
LeafMaps ==
    { CategoryMap(<<NameA, NameB>>,
                  (NameA :> Entry("t1", FALSE)) @@ (NameB :> Entry("t2", TRUE)),
                  NoMapping),
      CategoryMap(<<NameB, NameA>>,
                  (NameA :> Entry("t1", FALSE)) @@ (NameB :> Entry("t2", TRUE)),
                  NoMapping),
      CategoryMap(<<NameQA>>,
                  (NameQA :> Entry("t3", FALSE)) @@ (NameB :> Entry("t2", FALSE)),
                  NoMapping),
      CategoryMap(<<NameA, NameB>>,
                  (NameA :> Entry(Undefined, FALSE)) @@ (NameB :> Entry("t1", TRUE)),
                  NoMapping),
      CategoryMap(<<>>, NoMapping, NoMapping) }

\* `sub` as a subcategory: alone, or after a sibling entry.
Wrappers(sub) ==
    { CategoryMap(<<NameA>>, NoMapping, NameA :> sub),
      CategoryMap(<<NameB, NameQA>>, NameB :> Entry("t2", FALSE), NameQA :> sub) }

RECURSIVE MapsOfDepth(_)
MapsOfDepth(d) ==
    IF d = 0 THEN LeafMaps
    ELSE LET below == MapsOfDepth(d - 1)
         IN  below \cup UNION { Wrappers(sub) : sub \in below }

CategoryMaps == MapsOfDepth(MaxDepth)

\* options.topicId: absent, the id of some entry, or an id no entry has.
InitialTopicIds == {Undefined, "t1", "t3", "t9"}

\* The map itself and every map nested in it.
RECURSIVE SubMaps(_)
SubMaps(map) ==
    {map} \cup UNION { SubMaps(map.subcategories[n]) : n \in DOMAIN map.subcategories }

-----------------------------------------------------------------------------
(* Templates *)

\* #new-post-menu-entry-template: one option carrying label, id and cohort flag.
entryTemplate(text, id, is_cohorted) ==
    << [tag |-> "option", text |-> Escape(text), id |-> ToAttr(id),
        cohorted |-> is_cohorted, entries |-> <<>>] >>

\* #new-post-menu-category-template: one group labelled `text` around `entries`.
categoryTemplate(text, entries) ==
    << [tag |-> "optgroup", text |-> Escape(text), id |-> "",
        cohorted |-> FALSE, entries |-> entries] >>

\* Array.prototype.join(''): the concatenation of the pieces, in order.
RECURSIVE Join(_)
Join(pieces) ==
    IF pieces = <<>> THEN <<>> ELSE Head(pieces) \o Join(Tail(pieces))

-----------------------------------------------------------------------------
(* renderCategoryMap *)

RECURSIVE renderCategoryMap(_)

\* Variant: a subcategory's markup is returned without its category fragment.
renderChild_Unwrapped(map, name) ==
    IF name \in DOMAIN map.entries
    THEN entryTemplate(name, map.entries[name].id, map.entries[name].is_cohorted)
    ELSE renderCategoryMap(map.subcategories[name])

\* The fragment for one child name (the callback given to _.map).
renderChild(map, name) ==
    IF name \in DOMAIN map.entries
    THEN entryTemplate(name, map.entries[name].id, map.entries[name].is_cohorted)
    ELSE categoryTemplate(name, renderCategoryMap(map.subcategories[name]))

\* Variant: the names are taken from the keys of entries and subcategories.
renderCategoryMap_KeyOrder(map) ==
    LET keys == SelectSeq(<<NameA, NameB, NameQA>>,
                          LAMBDA n : n \in DOMAIN map.entries \cup DOMAIN map.subcategories)
    IN  Join([i \in 1..Len(keys) |-> renderChild(map, keys[i])])

renderCategoryMap(map) ==
    Join([i \in 1..Len(map.children) |-> renderChild(map, map.children[i])])

-----------------------------------------------------------------------------
(* The DOM below the select, and jQuery over it *)

\* #topic-template: the select around context.topics_html.
topicTemplate(context) == context.topics_html

\* What the browser builds from markup: character references become characters.
RECURSIVE ParseHtml(_)
ParseHtml(html) ==
    [i \in 1..Len(html) |->
        [tag |-> html[i].tag, text |-> Unescape(html[i].text), id |-> html[i].id,
         cohorted |-> html[i].cohorted, kids |-> ParseHtml(html[i].entries)]]

\* The elements below `prefix`, in document order.
RECURSIVE PathsOf(_, _)
PathsOf(nodes, prefix) ==
    Join([i \in 1..Len(nodes) |->
            <<Append(prefix, i)>> \o PathsOf(nodes[i].kids, Append(prefix, i))])

AllPaths(dom) == PathsOf(dom, <<>>)

RECURSIVE NodeAt(_, _)
NodeAt(dom, path) ==
    IF Len(path) = 1 THEN dom[path[1]]
    ELSE NodeAt(dom[path[1]].kids, Tail(path))

\* The select itself is the empty path.
Select == <<>>

Range(s) == { s[i] : i \in 1..Len(s) }
Reverse(s) == [i \in 1..Len(s) |-> s[Len(s) + 1 - i]]

IsDescendant(q, p) == Len(p) < Len(q) /\ SubSeq(q, 1, Len(p)) = p

IsOption(dom, q) == NodeAt(dom, q).tag = "option"

\* this.$('option', '.post-topic'): Backbone's this.$ is this.$el.find(selector).
Options(dom) == SelectSeq(AllPaths(dom), LAMBDA q : IsOption(dom, q))

\* $('option:selected', $target) is $target.find('option:selected'): the selected
\* options among the descendants of the elements of $target.
FindOptionSelected(dom, sel, target) ==
    SelectSeq(AllPaths(dom),
              LAMBDA q : /\ \E i \in 1..Len(target) : IsDescendant(q, target[i])
                         /\ IsOption(dom, q)
                         /\ q \in Range(sel))

\* .filter('[data-discussion-id="' + id + '"]')
FilterByDiscussionId(dom, set, id) ==
    SelectSeq(set, LAMBDA q : NodeAt(dom, q).id = ToAttr(id))

\* .first()
First(set) == IF set = <<>> THEN <<>> ELSE <<set[1]>>

\* .data('discussion-id'): of the first element; undefined for the empty set.
DataDiscussionId(dom, set) ==
    IF set = <<>> THEN Undefined ELSE NodeAt(dom, set[1]).id

\* .html(): the serialised content of the first element; characters are escaped.
Html(dom, set) ==
    IF set = <<>> THEN UndefinedText ELSE Text(Escape(NodeAt(dom, set[1]).text))

\* .parents('optgroup'): the enclosing groups, the closest first.
ParentsOptgroup(dom, set) ==
    Reverse(SelectSeq(AllPaths(dom),
                      LAMBDA a : /\ NodeAt(dom, a).tag = "optgroup"
                                 /\ \E i \in 1..Len(set) : IsDescendant(set[i], a)))

\* $(item).attr('label')
AttrLabel(dom, item) == NodeAt(dom, item).text

\* The options a freshly built single select holds as selected: its first one.
DefaultSelected(dom) == First(Options(dom))

-----------------------------------------------------------------------------
(* The view's operations *)

\* The fields of the view that setTopic reads and writes, and what it has emitted.
View(id, text, out) == [currentTopicId |-> id, topicText |-> text, triggered |-> out]

getCurrentTopicId(view) == view.currentTopicId

\* `_.each(topicElement.parents('optgroup'), ...)`: each label is put in front.
RECURSIVE PrefixLabels(_, _, _)
PrefixLabels(dom, parents, name) ==
    IF parents = <<>> THEN name
    ELSE PrefixLabels(dom, Tail(parents),
                      AttrLabel(dom, Head(parents)) \o <<" / ">> \o name)

\* getFullTopicName(topicElement), the branch taken when an element is passed.
FullTopicNameOf(dom, topicElement) ==
    LET name == Html(dom, topicElement)
    IN  IF name.defined
        THEN Text(PrefixLabels(dom, ParentsOptgroup(dom, topicElement), name.str))
        ELSE UndefinedText

\* getFullTopicName(topicElement?): `arg` is <<>> for a call without argument
\* and <<topicElement>> for a call with one (a jQuery object is always truthy).
getFullTopicName(view, dom, arg) ==
    IF arg # <<>> THEN FullTopicNameOf(dom, arg[1]) ELSE view.topicText

\* this.trigger('thread:topic_change', $option): listeners run at once and see the
\* view as it is at that moment.
trigger(view, dom, option) ==
    [view EXCEPT !.triggered =
        Append(@, [event |-> "thread:topic_change",
                   option |-> option,
                   seenId |-> getCurrentTopicId(view),
                   seenText |-> getFullTopicName(view, dom, <<>>)])]

\* Variant: the current topic id is not stored.
setTopic_KeepsId(view, dom, sel, target) ==
    LET option == FindOptionSelected(dom, sel, target)
        named  == [view EXCEPT !.topicText = getFullTopicName(view, dom, <<option>>)]
    IN  IF Truthy(DataDiscussionId(dom, option))
        THEN trigger(named, dom, option)
        ELSE view

\* Variant: no test of the option's id.
setTopic_Unguarded(view, dom, sel, target) ==
    LET option == FindOptionSelected(dom, sel, target)
        named  == [view EXCEPT !.topicText = getFullTopicName(view, dom, <<option>>)]
        ided   == [named EXCEPT !.currentTopicId = DataDiscussionId(dom, option)]
    IN  trigger(ided, dom, option)

\* Variant: the notification is sent before the fields are assigned.
setTopic_TriggersFirst(view, dom, sel, target) ==
    LET option == FindOptionSelected(dom, sel, target)
        sent   == trigger(view, dom, option)
        named  == [sent EXCEPT !.topicText = getFullTopicName(view, dom, <<option>>)]
        ided   == [named EXCEPT !.currentTopicId = DataDiscussionId(dom, option)]
    IN  IF Truthy(DataDiscussionId(dom, option))
        THEN ided
        ELSE view

setTopic(view, dom, sel, target) ==
    LET option == FindOptionSelected(dom, sel, target)
        named  == [view EXCEPT !.topicText = getFullTopicName(view, dom, <<option>>)]
        ided   == [named EXCEPT !.currentTopicId = DataDiscussionId(dom, option)]
    IN  IF Truthy(DataDiscussionId(dom, option))
        THEN trigger(ided, dom, option)
        ELSE view

handleTopicEvent(view, dom, sel, eventTarget) ==
    setTopic(view, dom, sel, <<eventTarget>>)

\* Variant: render hands the select to setTopic.
renderTarget_Select(view, dom) == <<Select>>

\* The jQuery object render hands to setTopic.
renderTarget(view, dom) ==
    IF Truthy(getCurrentTopicId(view))
    THEN FilterByDiscussionId(dom, Options(dom), getCurrentTopicId(view))
    ELSE First(Options(dom))

\* The content render gives the select.
renderDom(map) == ParseHtml(topicTemplate([topics_html |-> renderCategoryMap(map)]))

-----------------------------------------------------------------------------
(* State machine *)

Now == View(currentTopicId, topicText, <<>>)

\* A call: its name, argument and result, and the view's fields when it was made.
Call(op, arg, ret) ==
    [op |-> op, arg |-> arg, ret |-> ret,
     beforeId |-> currentTopicId, beforeText |-> topicText]

Elements == {Select} \cup Range(AllPaths(el))

\* jQuery objects a caller may pass: empty, one element, or all options.
Targets == {<<>>, Options(el)} \cup { <<e>> : e \in Elements }

Becomes(view) ==
    /\ currentTopicId' = view.currentTopicId
    /\ topicText' = view.topicText
    /\ triggered' = view.triggered

\* new DiscussionTopicMenuView({course_settings: ..., topicId: ...})
Init ==
    /\ category_map \in CategoryMaps
    /\ currentTopicId \in InitialTopicIds
    /\ topicText = UndefinedText
    /\ el = <<>>
    /\ selected = <<>>
    /\ triggered = <<>>
    /\ call = [op |-> "initialize", arg |-> <<>>, ret |-> <<>>,
               beforeId |-> Undefined, beforeText |-> UndefinedText]

Render ==
    LET dom == renderDom(category_map)
        sel == DefaultSelected(dom)
    IN  /\ el' = dom
        /\ selected' = sel
        /\ Becomes(setTopic(Now, dom, sel, renderTarget(Now, dom)))
        /\ call' = Call("render", renderTarget(Now, dom), <<>>)
        /\ UNCHANGED category_map

RenderCategoryMap ==
    \E map \in SubMaps(category_map) :
        /\ call' = Call("renderCategoryMap", map, renderCategoryMap(map))
        /\ triggered' = <<>>
        /\ UNCHANGED <<category_map, currentTopicId, topicText, el, selected>>

\* The user picks an option; the 'change .post-topic' binding runs the handler.
ChangeEvent ==
    \E o \in Range(Options(el)) :
        /\ selected' = <<o>>
        /\ Becomes(handleTopicEvent(Now, el, <<o>>, Select))
        /\ call' = Call("handleTopicEvent", <<Select>>, <<>>)
        /\ UNCHANGED <<category_map, el>>

HandleTopicEvent ==
    \E e \in Elements :
        /\ Becomes(handleTopicEvent(Now, el, selected, e))
        /\ call' = Call("handleTopicEvent", <<e>>, <<>>)
        /\ UNCHANGED <<category_map, el, selected>>

SetTopic ==
    \E target \in Targets :
        /\ Becomes(setTopic(Now, el, selected, target))
        /\ call' = Call("setTopic", target, <<>>)
        /\ UNCHANGED <<category_map, el, selected>>

GetCurrentTopicId ==
    /\ call' = Call("getCurrentTopicId", <<>>, getCurrentTopicId(Now))
    /\ triggered' = <<>>
    /\ UNCHANGED <<category_map, currentTopicId, topicText, el, selected>>

GetFullTopicName ==
    \E arg \in {<<>>} \cup { <<<<o>>>> : o \in Range(Options(el)) } :
        /\ call' = Call("getFullTopicName", arg, getFullTopicName(Now, el, arg))
        /\ triggered' = <<>>
        /\ UNCHANGED <<category_map, currentTopicId, topicText, el, selected>>

Next ==
    \/ Render
    \/ RenderCategoryMap
    \/ ChangeEvent
    \/ HandleTopicEvent
    \/ SetTopic
    \/ GetCurrentTopicId
    \/ GetFullTopicName

Spec == Init /\ [][Next]_vars

-----------------------------------------------------------------------------
(* Vocabulary of the properties *)

IsSetTopicCall == call.op \in {"setTopic", "handleTopicEvent"}

\* The selected options that lie below an element of the jQuery object `target`.
SelectedUnder(target) ==
    { o \in Range(selected) : \E i \in 1..Len(target) : IsDescendant(o, target[i]) }

\* The topic id an option carries, undefined when it carries none.
TopicIdOf(o) == IF NodeAt(el, o).id = "" THEN Undefined ELSE NodeAt(el, o).id

CarriesTopicId(o) == TopicIdOf(o) # Undefined

\* The notification a call emits for option o.
Notifies(o) ==
    /\ Len(triggered) = 1
    /\ triggered[1].event = "thread:topic_change"
    /\ triggered[1].option = <<o>>

\* Group labels from the outermost group inwards, then the option's own label.
RECURSIVE LabelPath(_, _)
LabelPath(nodes, path) ==
    IF Len(path) = 1 THEN nodes[path[1]].text
    ELSE nodes[path[1]].text \o <<" / ">> \o LabelPath(nodes[path[1]].kids, Tail(path))

\* The entries of a category tree, each with the names of the subcategories above it.
RECURSIVE EntryOccurrences(_, _)
EntryOccurrences(map, groups) ==
    UNION { IF name \in DOMAIN map.entries
            THEN { <<groups, name, ToAttr(map.entries[name].id), map.entries[name].is_cohorted>> }
            ELSE EntryOccurrences(map.subcategories[name], Append(groups, name))
            : name \in Range(map.children) }

\* The entry fragments of markup, each with the labels of the category fragments around it.
RECURSIVE OptionOccurrences(_, _)
OptionOccurrences(html, groups) ==
    UNION { IF html[i].tag = "option"
            THEN { <<groups, Unescape(html[i].text), html[i].id, html[i].cohorted>> }
            ELSE OptionOccurrences(html[i].entries, Append(groups, Unescape(html[i].text)))
            : i \in 1..Len(html) }

\* One fragment per child, the i-th labelled with the i-th child name, at every level.
RECURSIVE InChildrenOrder(_, _)
InChildrenOrder(map, html) ==
    /\ Len(html) = Len(map.children)
    /\ \A i \in 1..Len(html) :
          /\ Unescape(html[i].text) = map.children[i]
          /\ html[i].tag = "optgroup" =>
                InChildrenOrder(map.subcategories[map.children[i]], html[i].entries)

\* Entry names give entry fragments, the other names category fragments around the
\* markup of their subcategory.
RECURSIVE EntryOrWrapped(_, _)
EntryOrWrapped(map, html) ==
    /\ Len(html) = Len(map.children)
    /\ \A i \in 1..Len(html) :
          LET name == map.children[i]
          IN  IF name \in DOMAIN map.entries
              THEN /\ html[i].tag = "option"
                   /\ Unescape(html[i].text) = name
                   /\ html[i].id = ToAttr(map.entries[name].id)
                   /\ html[i].cohorted = map.entries[name].is_cohorted
                   /\ html[i].entries = <<>>
              ELSE /\ html[i].tag = "optgroup"
                   /\ Unescape(html[i].text) = name
                   /\ EntryOrWrapped(map.subcategories[name], html[i].entries)

-----------------------------------------------------------------------------
(* Properties *)

\* C1: after setTopic (called directly or through handleTopicEvent) found a
\* selected option carrying a topic id, the current topic id is that option's id,
\* the cached name is that option's full topic name, and the call emitted exactly
\* one 'thread:topic_change' notification, carrying that option.
C1_SetTopicSelects ==
    IsSetTopicCall =>
        \A o \in SelectedUnder(call.arg) :
            CarriesTopicId(o) =>
                /\ getCurrentTopicId(Now) = TopicIdOf(o)
                /\ getFullTopicName(Now, el, <<>>) = FullTopicNameOf(el, <<o>>)
                /\ Notifies(o)

\* A change event moved the topic to a nested option that is not the previous topic.
C1_Witness ==
    /\ call.op = "handleTopicEvent"
    /\ \E o \in SelectedUnder(call.arg) :
          /\ CarriesTopicId(o)
          /\ Len(o) > 1
          /\ TopicIdOf(o) # call.beforeId
          /\ Notifies(o)

\* C2: when setTopic finds no selected option carrying a topic id, the current topic
\* id and the cached name are what they were before the call and nothing is emitted.
C2_SetTopicNoId ==
    (IsSetTopicCall /\ \A o \in SelectedUnder(call.arg) : ~CarriesTopicId(o)) =>
        /\ currentTopicId = call.beforeId
        /\ topicText = call.beforeText
        /\ triggered = <<>>

\* With a topic current, the user picked an option that has no id.
C2_Witness ==
    /\ call.op = "handleTopicEvent"
    /\ call.arg = <<Select>>
    /\ \E o \in SelectedUnder(call.arg) : ~CarriesTopicId(o)
    /\ topicText.defined
    /\ triggered = <<>>

\* C3: after render of a view whose stored topic id matches an option, that option
\* is the current topic (its id, its full name) and its notification was emitted.
C3_RenderSelectsMatching ==
    (call.op = "render" /\ Truthy(call.beforeId)) =>
        \A o \in Range(Options(el)) :
            TopicIdOf(o) = call.beforeId =>
                /\ getCurrentTopicId(Now) = TopicIdOf(o)
                /\ getFullTopicName(Now, el, <<>>) = FullTopicNameOf(el, <<o>>)
                /\ Notifies(o)

\* C4: after render of a view whose stored topic id matches no option (or is
\* absent), over a map with at least one entry, the current topic id is the id of
\* the first option in document order.
C4_RenderSelectsFirst ==
    ( /\ call.op = "render"
      /\ Options(el) # <<>>
      /\ \A o \in Range(Options(el)) : TopicIdOf(o) # call.beforeId ) =>
        getCurrentTopicId(Now) = TopicIdOf(Options(el)[1])

\* C5: renderCategoryMap(map) is one fragment per element of map.children, in the
\* order of children, at every level of the tree.
C5_ChildrenOrder ==
    call.op = "renderCategoryMap" => InChildrenOrder(call.arg, call.ret)

\* Two sibling entries whose children order is not the order of their names.
C5_Witness ==
    /\ call.op = "renderCategoryMap"
    /\ call.arg.children = <<NameB, NameA>>
    /\ Len(call.ret) = 2
    /\ call.ret[1].tag = "option"
    /\ call.ret[2].tag = "option"

\* C6: a child name that is a key of entries gives an entry fragment (label, id,
\* cohort flag); any other gives a category fragment labelled with the name around
\* the markup of its subcategory; so the entries of the tree are exactly the entry
\* fragments, each inside the wrappers of its subcategories and nowhere else.
C6_EntriesNested ==
    call.op = "renderCategoryMap" =>
        /\ EntryOrWrapped(call.arg, call.ret)
        /\ OptionOccurrences(call.ret, <<>>) = EntryOccurrences(call.arg, <<>>)

\* A map with an entry next to a subcategory that holds a subcategory with entries.
C6_Witness ==
    /\ call.op = "renderCategoryMap"
    /\ Len(call.ret) = 2
    /\ call.ret[1].tag = "option"
    /\ call.ret[2].tag = "optgroup"
    /\ \E occ \in OptionOccurrences(call.ret, <<>>) : Len(occ[1]) = 2

\* C7: getFullTopicName(option) is the labels of the option's groups from the
\* outermost to the innermost, then the option's own label, joined by ' / '.
C7_FullNameIsLabelPath ==
    (call.op = "getFullTopicName" /\ call.arg # <<>>) =>
        call.ret = Text(LabelPath(el, call.arg[1][1]))

\* C8: render, renderCategoryMap, getCurrentTopicId and getFullTopicName leave the
\* current topic id and the cached name as they were.
C8_OnlySelectionMutates ==
    call.op \in {"render", "renderCategoryMap", "getCurrentTopicId", "getFullTopicName"} =>
        /\ currentTopicId = call.beforeId
        /\ topicText = call.beforeText

\* render ran on a view whose stored topic id matches a rendered option.
C8_Witness ==
    /\ call.op = "render"
    /\ call.arg # <<>>
    /\ Truthy(call.beforeId)
    /\ TopicIdOf(call.arg[1]) = call.beforeId

\* C9: once rendered, when the current topic id is the id of a rendered option, the
\* cached name is defined and is the full name of an option with that id.
C9_NameMatchesId ==
    ( /\ call.op \in {"render", "handleTopicEvent"}
      /\ \E o \in Range(Options(el)) : TopicIdOf(o) = getCurrentTopicId(Now) ) =>
        /\ getFullTopicName(Now, el, <<>>).defined
        /\ \E o \in Range(Options(el)) :
              /\ TopicIdOf(o) = getCurrentTopicId(Now)
              /\ getFullTopicName(Now, el, <<>>) = FullTopicNameOf(el, <<o>>)

\* C10: a listener of 'thread:topic_change' that reads the current topic id and the
\* full topic name sees the id and the full name of the option it is handed.
C10_ListenerSeesNewTopic ==
    \A i \in 1..Len(triggered) :
        /\ triggered[i].seenId = DataDiscussionId(el, triggered[i].option)
        /\ triggered[i].seenText = FullTopicNameOf(el, triggered[i].option)

\* A notification delivered when another topic, with another name, was current.
C10_Witness ==
    /\ triggered # <<>>
    /\ Truthy(call.beforeId)
    /\ call.beforeText.defined
    /\ call.beforeId # triggered[1].seenId
    /\ call.beforeText # triggered[1].seenText

====
